---------------------------- MODULE Spec2Model ----------------------------
(***************************************************************************)
(* RSA key recovery (src/solve.py): Wiener's continued-fraction attack,    *)
(* Pollard's p-1, Brent's variant of Pollard's rho, Fermat's method, the   *)
(* staged try_factor and recover_and_decrypt.                              *)
(*                                                                         *)
(* Python integers are unbounded; every input set below is small enough    *)
(* that no intermediate value leaves TLC's integer range (TLC reports an   *)
(* overflow as an error, it never wraps).                                  *)
(***************************************************************************)
EXTENDS Integers, Sequences, FiniteSets, TLC

VARIABLES
    pc,       \* position of the running call
    e,        \* public exponent argument
    n,        \* modulus argument
    c,        \* ciphertext argument
    bound,    \* B of pollards_p_minus_1 / max_steps of fermat_factor (direct calls)
    ret,      \* value returned by the call (None, Some(v), Bytes(s) or a Fault)
    kd,       \* wiener_attack: the convergent (k, d) at its return statement
    stage,    \* try_factor: index into the p-1 bound list
    attempt,  \* pollards_rho: number of the running attempt (1..10)
    rho,      \* pollards_rho: locals y, c, g, r, q, x, ys of the running attempt
    fac,      \* try_factor: the returned pair
    cause,    \* recover_and_decrypt: which return statement produced ret
    tried     \* try_factor: log of the methods attempted, in order

vars == <<pc, e, n, c, bound, ret, kd, stage, attempt, rho, fac, cause, tried>>

---------------------------------------------------------------------------
(* Values *)

None == [kind |-> "None"]
Some(v) == [kind |-> "int", val |-> v]
Bytes(s) == [kind |-> "bytes", val |-> s]
Fault(x) == [kind |-> "fault", exc |-> x]

Abs(a) == IF a < 0 THEN -a ELSE a
Min(a, b) == IF a < b THEN a ELSE b

---------------------------------------------------------------------------
(* Library arithmetic used by the program *)

\* math.gcd: the non-negative gcd of |a| and |b|
RECURSIVE GcdNat(_, _)
GcdNat(a, b) == IF b = 0 THEN a ELSE GcdNat(b, a % b)
gcd(a, b) == GcdNat(Abs(a), Abs(b))

\* builtin pow(b, x, m) for x >= 0, m >= 1: square and multiply
RECURSIVE pow(_, _, _)
pow(b, x, m) ==
    IF x = 0 THEN 1 % m
    ELSE LET h == pow(b, x \div 2, m)
             s == (h * h) % m
         IN IF x % 2 = 1 THEN (s * (b % m)) % m ELSE s

\* math.isqrt: the largest r with r*r <= v, by bisection on lo <= r < hi
RECURSIVE IsqrtIn(_, _, _)
IsqrtIn(v, lo, hi) ==
    IF hi - lo <= 1 THEN lo
    ELSE LET mid == (lo + hi) \div 2
         IN IF mid <= v \div mid THEN IsqrtIn(v, mid, hi) ELSE IsqrtIn(v, lo, mid)
isqrt(v) == IF v = 0 THEN 0 ELSE IsqrtIn(v, 1, v + 1)

\* Crypto.Util.number.long_to_bytes: big-endian base-256 digits, b'\x00' for 0
RECURSIVE Digits256(_)
Digits256(v) == IF v = 0 THEN <<>> ELSE Append(Digits256(v \div 256), v % 256)
long_to_bytes(v) == IF v = 0 THEN <<0>> ELSE Digits256(v)

---------------------------------------------------------------------------
(* egcd, invmod, is_perfect_square *)

RECURSIVE egcd(_, _)
egcd(a, b) ==
    IF b = 0 THEN <<a, 1, 0>>
    ELSE LET t == egcd(b, a % b)
         IN <<t[1], t[3], t[2] - (a \div b) * t[3]>>

invmod(a, m) ==
    LET t == egcd(a, m)
    IN IF t[1] # 1 THEN None
       ELSE IF m = 0 THEN Fault("ZeroDivisionError")
       ELSE Some(t[2] % m)

is_perfect_square(v) ==
    IF v < 0 THEN FALSE
    ELSE LET r == isqrt(v) IN r * r = v

---------------------------------------------------------------------------
(* wiener_attack *)

RECURSIVE cont_frac(_, _)
cont_frac(num, den) ==
    IF den = 0 THEN <<>>
    ELSE LET a == num \div den
         IN <<a>> \o cont_frac(den, num - a * den)

\* the pairs yielded after the first one, from coefficient i on
RECURSIVE ConvergentsFrom(_, _, _, _, _, _)
ConvergentsFrom(cf, i, n0, d0, n1, d1) ==
    IF i > Len(cf) THEN <<>>
    ELSE LET n2 == cf[i] * n1 + n0
             d2 == cf[i] * d1 + d0
         IN <<<<n2, d2>>>> \o ConvergentsFrom(cf, i + 1, n1, d1, n2, d2)

convergents(cf) == <<<<cf[1], 1>>>> \o ConvergentsFrom(cf, 2, 1, 0, cf[1], 1)

\* (mutant) the test of one convergent without the perfect-square test
WienerAcceptsAnyDisc(ee, nn, k, d) ==
    /\ k # 0
    /\ (ee * d - 1) % k = 0
    /\ LET phi == (ee * d - 1) \div k
           s == nn - phi + 1
       IN s * s - 4 * nn >= 0

\* the test of one convergent (k, d): lines 54-63
WienerAccepts(ee, nn, k, d) ==
    /\ k # 0
    /\ (ee * d - 1) % k = 0
    /\ LET phi == (ee * d - 1) \div k
           s == nn - phi + 1
           disc == s * s - 4 * nn
       IN disc >= 0 /\ is_perfect_square(disc)

\* the first accepted convergent, or None
RECURSIVE WienerScan(_, _, _, _)
WienerScan(ee, nn, cs, i) ==
    IF i > Len(cs) THEN None
    ELSE IF WienerAccepts(ee, nn, cs[i][1], cs[i][2])
         THEN [kind |-> "conv", k |-> cs[i][1], d |-> cs[i][2]]
         ELSE WienerScan(ee, nn, cs, i + 1)

WienerFound(ee, nn) == WienerScan(ee, nn, convergents(cont_frac(ee, nn)), 1)

wiener_attack(ee, nn) ==
    LET w == WienerFound(ee, nn)
    IN IF w = None THEN None ELSE Some(w.d)

---------------------------------------------------------------------------
(* pollards_p_minus_1 *)

\* The loop of lines 110-111 from j on.  Once a*a % nn = a, pow(a, j, nn) = a
\* for every j >= 1, so the remaining iterations leave a as it is and the
\* loop's result is a: the operator returns it without running them.
RECURSIVE PM1Loop(_, _, _, _)
PM1Loop(a, j, B, nn) ==
    IF j > B \/ (a * a) % nn = a THEN a
    ELSE PM1Loop(pow(a, j, nn), j + 1, B, nn)

\* (mutant) the gcd N itself accepted
PM1AcceptsUpToN(d, nn) == 1 < d /\ d <= nn

\* line 113: the accepted range of the gcd
PM1Accepts(d, nn) == 1 < d /\ d < nn

pollards_p_minus_1(nn, B) ==
    LET a == PM1Loop(2, 2, B, nn)
        d == gcd(a - 1, nn)
    IN IF PM1Accepts(d, nn) THEN Some(d) ELSE None

---------------------------------------------------------------------------
(* fermat_factor *)

\* is the candidate of line 165-169 accepted at a
FermatHit(a, nn) ==
    LET b2 == a * a - nn
    IN /\ is_perfect_square(b2)
       /\ LET b == isqrt(b2)
              p == a - b
              q == a + b
          IN p * q = nn /\ 1 < p /\ p < nn

\* (mutant) the floor of the square root, not its ceiling
FermatStartFloor(nn) == isqrt(nn)

\* line 160-162: the first a tested
FermatStart(nn) ==
    LET a == isqrt(nn) IN IF a * a < nn THEN a + 1 ELSE a

\* The loop of lines 163-171 with `left` iterations to go.  For 2a - 1 > nn,
\* (a-1)^2 < a*a - nn < a*a, and the same holds of every larger a: no later
\* iteration finds a square, and the loop's result is not-found; the operator
\* returns it without running them.
RECURSIVE FermatLoop(_, _, _)
FermatLoop(a, left, nn) ==
    IF left = 0 \/ 2 * a - 1 > nn THEN None
    ELSE IF FermatHit(a, nn) THEN Some(a - isqrt(a * a - nn))
    ELSE FermatLoop(a + 1, left - 1, nn)

fermat_factor(nn, max_steps) ==
    IF nn % 2 = 0 THEN Some(2)
    ELSE FermatLoop(FermatStart(nn), max_steps, nn)

---------------------------------------------------------------------------
(* pollards_rho (Brent's variant) *)

RhoAttempts == 10
RhoBatch == 4096

\* y = (y * y + c) % n
RhoMap(y, cc, nn) == (y * y + cc) % nn

RECURSIVE RhoAdvance(_, _, _, _)
RhoAdvance(y, times, cc, nn) ==
    IF times = 0 THEN y ELSE RhoAdvance(RhoMap(y, cc, nn), times - 1, cc, nn)

\* lines 89-91: lim steps of y, each multiplied into q; yields <<y, q>>
RECURSIVE RhoBatchLoop(_, _, _, _, _, _)
RhoBatchLoop(y, q, x, lim, cc, nn) ==
    IF lim = 0 THEN <<y, q>>
    ELSE LET y2 == RhoMap(y, cc, nn)
         IN RhoBatchLoop(y2, (q * Abs(x - y2)) % nn, x, lim - 1, cc, nn)

\* lines 86-93: the batches of one round, from k on
RECURSIVE RhoBatches(_, _, _)
RhoBatches(st, k, nn) ==
    IF ~(k < st.r /\ st.g = 1) THEN st
    ELSE LET lim == Min(RhoBatch, st.r - k)
             yq == RhoBatchLoop(st.y, st.q, st.x, lim, st.c, nn)
         IN RhoBatches([st EXCEPT !.ys = st.y, !.y = yq[1], !.q = yq[2],
                                  !.g = gcd(yq[2], nn)],
                       k + lim, nn)

\* (mutant) a round that leaves r as it is
RhoRoundStepSameR(st, nn) ==
    LET s1 == [st EXCEPT !.x = st.y, !.y = RhoAdvance(st.y, st.r, st.c, nn)]
    IN RhoBatches(s1, 0, nn)

\* lines 82-94: one iteration of `while g == 1`
RhoRoundStep(st, nn) ==
    LET s1 == [st EXCEPT !.x = st.y, !.y = RhoAdvance(st.y, st.r, st.c, nn)]
        s2 == RhoBatches(s1, 0, nn)
    IN [s2 EXCEPT !.r = 2 * s2.r]

\* lines 98-99: one iteration of the fallback `while True`
RhoFallbackStep(st, nn) ==
    LET ys2 == RhoMap(st.ys, st.c, nn)
    IN [st EXCEPT !.ys = ys2, !.g = gcd(Abs(st.x - ys2), nn)]

\* lines 75-80: the locals of a fresh attempt (x and ys are not yet bound)
RhoFresh(y0, c0) == [y |-> y0, c |-> c0, g |-> 1, r |-> 1, q |-> 1, x |-> 0, ys |-> 0]

\* random.randrange(1, n - 1): the values it can return (none: it raises)
RandRange(nn) == 1 .. (nn - 2)

RECURSIVE RhoRounds(_, _)
RhoRounds(st, nn) == IF st.g # 1 THEN st ELSE RhoRounds(RhoRoundStep(st, nn), nn)

RECURSIVE RhoFallback(_, _)
RhoFallback(st, nn) ==
    LET s2 == RhoFallbackStep(st, nn)
    IN IF s2.g > 1 THEN s2 ELSE RhoFallback(s2, nn)

\* lines 75-101: g at line 102 of an attempt that drew y0 and c0
RhoAttemptG(nn, y0, c0) ==
    LET s1 == RhoRounds(RhoFresh(y0, c0), nn)
    IN IF s1.g = nn THEN RhoFallback(s1, nn).g ELSE s1.g

\* line 102
RhoAccepts(g, nn) == 1 < g /\ g < nn

\* the values of g at line 102 over the draws of y and c an attempt can make
RhoOutcomes(nn) ==
    {RhoAttemptG(nn, y0, c0) : y0 \in RandRange(nn), c0 \in RandRange(nn)}

---------------------------------------------------------------------------
(* Input sets *)

MaxN == 34          \* recover_and_decrypt: moduli 1..MaxN
MaxE == 50          \* recover_and_decrypt: exponents 1..MaxE
MaxFactorN == 40    \* try_factor: moduli 2..MaxFactorN
MaxRhoN == 15       \* pollards_rho: odd moduli 3..MaxRhoN
MaxPrime == 13      \* wiener_attack with any exponent: primes up to MaxPrime
MaxWienerE == 150   \* wiener_attack with any exponent: exponents 1..MaxWienerE
MaxKeyPrime == 101  \* wiener_attack on generated keys: primes up to MaxKeyPrime
MaxD == 7           \* wiener_attack on generated keys: private exponents 1..MaxD
MaxJ == 1           \* wiener_attack on generated keys: E = D^-1 + j*phi, j in 0..MaxJ
MaxNarrowPrime == 5 \* wiener_attack on generated keys with far-apart primes:
MaxWidePrime == 2400 \*   P up to MaxNarrowPrime, Q up to MaxWidePrime
MaxPM1Prime == 31   \* pollards_p_minus_1: primes up to MaxPM1Prime
MaxB == 7           \* pollards_p_minus_1: bounds 2..MaxB
MaxFermatPrime == 23 \* fermat_factor: odd primes up to MaxFermatPrime
MaxSteps == 8       \* fermat_factor: caps 0..MaxSteps

\* RhoOutcomes depends on the modulus alone: tabulated over the moduli
\* try_factor is called with
RhoOutcomeOf ==
    [nn \in 1 .. (IF MaxN > MaxFactorN THEN MaxN ELSE MaxFactorN) |-> RhoOutcomes(nn)]

IsPrime(p) == p > 1 /\ \A i \in 2 .. (p - 1) : i * i > p \/ p % i # 0
Primes(m) == {p \in 2 .. m : IsPrime(p)}

\* the prime pairs P < Q of the generated keys
KeyPairs ==
    {pq \in (Primes(MaxKeyPrime) \X Primes(MaxKeyPrime))
            \cup (Primes(MaxNarrowPrime) \X Primes(MaxWidePrime)) : pq[1] < pq[2]}

---------------------------------------------------------------------------
(* Direct calls of wiener_attack, pollards_p_minus_1, fermat_factor *)

\* the least x > 0 with a*x = 1 mod m, for gcd(a, m) = 1: the public exponent
\* of a key generated from the private exponent a, and the other way round
LeastInverse(a, m) ==
    LET x == egcd(a, m)[2] % m IN IF x = 0 THEN m ELSE x

InitWiener ==
    /\ pc = "wiener_attack"
    /\ \/ \E P \in Primes(MaxPrime), Q \in Primes(MaxPrime) :
             /\ P < Q
             /\ n = P * Q
             /\ e \in 1 .. MaxWienerE
       \/ \E pq \in KeyPairs :
             LET phi == (pq[1] - 1) * (pq[2] - 1)
             IN /\ n = pq[1] * pq[2]
                /\ \E d \in 1 .. MaxD, j \in 0 .. MaxJ :
                      /\ gcd(d, phi) = 1
                      /\ e = LeastInverse(d, phi) + j * phi
    /\ c = 0 /\ bound = 0
    /\ ret = None /\ kd = None
    /\ stage = 0 /\ attempt = 0 /\ rho = RhoFresh(0, 0)
    /\ fac = None /\ cause = "" /\ tried = <<>>

WienerCall ==
    /\ pc = "wiener_attack"
    /\ ret' = wiener_attack(e, n)
    /\ kd' = WienerFound(e, n)
    /\ pc' = "done"
    /\ UNCHANGED <<e, n, c, bound, stage, attempt, rho, fac, cause, tried>>

SpecWiener == InitWiener /\ [][WienerCall]_vars

InitPMinus1 ==
    /\ pc = "pollards_p_minus_1"
    /\ \E P \in Primes(MaxPM1Prime), Q \in Primes(MaxPM1Prime) :
          P < Q /\ n = P * Q
    /\ bound \in 2 .. MaxB
    /\ e = 0 /\ c = 0
    /\ ret = None /\ kd = None
    /\ stage = 0 /\ attempt = 0 /\ rho = RhoFresh(0, 0)
    /\ fac = None /\ cause = "" /\ tried = <<>>

PMinus1Call ==
    /\ pc = "pollards_p_minus_1"
    /\ ret' = pollards_p_minus_1(n, bound)
    /\ pc' = "done"
    /\ UNCHANGED <<e, n, c, bound, kd, stage, attempt, rho, fac, cause, tried>>

SpecPMinus1 == InitPMinus1 /\ [][PMinus1Call]_vars

InitFermat ==
    /\ pc = "fermat_factor"
    /\ \E P \in Primes(MaxFermatPrime), Q \in Primes(MaxFermatPrime) :
          2 < P /\ P <= Q /\ n = P * Q
    /\ bound \in 0 .. MaxSteps
    /\ e = 0 /\ c = 0
    /\ ret = None /\ kd = None
    /\ stage = 0 /\ attempt = 0 /\ rho = RhoFresh(0, 0)
    /\ fac = None /\ cause = "" /\ tried = <<>>

FermatCall ==
    /\ pc = "fermat_factor"
    /\ ret' = fermat_factor(n, bound)
    /\ pc' = "done"
    /\ UNCHANGED <<e, n, c, bound, kd, stage, attempt, rho, fac, cause, tried>>

SpecFermat == InitFermat /\ [][FermatCall]_vars

---------------------------------------------------------------------------
(* pollards_rho, one loop iteration per step *)

InitRho ==
    /\ pc = "rho_entry"
    /\ n \in {m \in 3 .. MaxRhoN : m % 2 = 1}
    /\ e = 0 /\ c = 0 /\ bound = 0
    /\ ret = None /\ kd = None
    /\ stage = 0 /\ attempt = 0 /\ rho = RhoFresh(0, 0)
    /\ fac = None /\ cause = "" /\ tried = <<>>

\* lines 69-70 and the first pass of line 74
RhoEntry ==
    /\ pc = "rho_entry"
    /\ IF n % 2 = 0
       THEN ret' = Some(2) /\ pc' = "done" /\ UNCHANGED attempt
       ELSE attempt' = 1 /\ pc' = "rho_draw" /\ UNCHANGED ret
    /\ UNCHANGED <<e, n, c, bound, kd, stage, rho, fac, cause, tried>>

\* lines 75-80
RhoDraw ==
    /\ pc = "rho_draw"
    /\ IF RandRange(n) = {}
       THEN ret' = Fault("ValueError") /\ pc' = "done" /\ UNCHANGED rho
       ELSE /\ \E y0 \in RandRange(n), c0 \in RandRange(n) : rho' = RhoFresh(y0, c0)
            /\ pc' = "rho_round"
            /\ UNCHANGED ret
    /\ UNCHANGED <<e, n, c, bound, kd, stage, attempt, fac, cause, tried>>

\* line 81 with g == 1: one round, lines 82-94
RhoRound ==
    /\ pc = "rho_round"
    /\ rho.g = 1
    /\ rho' = RhoRoundStep(rho, n)
    /\ UNCHANGED <<pc, e, n, c, bound, ret, kd, stage, attempt, fac, cause, tried>>

\* line 81 with g != 1, and line 95
RhoLeaveRounds ==
    /\ pc = "rho_round"
    /\ rho.g # 1
    /\ pc' = IF rho.g = n THEN "rho_fallback" ELSE "rho_check"
    /\ UNCHANGED <<e, n, c, bound, ret, kd, stage, attempt, rho, fac, cause, tried>>

\* lines 97-101: one iteration of the fallback loop
RhoFallbackIter ==
    /\ pc = "rho_fallback"
    /\ rho' = RhoFallbackStep(rho, n)
    /\ pc' = IF rho'.g > 1 THEN "rho_check" ELSE "rho_fallback"
    /\ UNCHANGED <<e, n, c, bound, ret, kd, stage, attempt, fac, cause, tried>>

\* lines 102-104 and the next pass of line 74
RhoCheck ==
    /\ pc = "rho_check"
    /\ IF RhoAccepts(rho.g, n)
       THEN ret' = Some(rho.g) /\ pc' = "done" /\ UNCHANGED attempt
       ELSE IF attempt < RhoAttempts
       THEN attempt' = attempt + 1 /\ pc' = "rho_draw" /\ UNCHANGED ret
       ELSE ret' = None /\ pc' = "done" /\ UNCHANGED attempt
    /\ UNCHANGED <<e, n, c, bound, kd, stage, rho, fac, cause, tried>>

NextRho ==
    \/ RhoEntry
    \/ RhoDraw
    \/ RhoRound
    \/ RhoLeaveRounds
    \/ RhoFallbackIter
    \/ RhoCheck

\* the call runs on its own thread of control: a step that can be taken is taken
SpecRho == InitRho /\ [][NextRho]_vars /\ WF_vars(NextRho)

---------------------------------------------------------------------------
(* try_factor *)

\* (mutant) the bounds out of order
PM1BoundsSwapped == <<300000, 100000, 700000, 1200000>>

\* line 120
PM1Bounds == <<100000, 300000, 700000, 1200000>>
\* line 127
FermatCap == 1000000

\* a log entry: the method called, its bound or cap, and what it returned
Tried(method, arg, res) == [method |-> method, arg |-> arg, res |-> res]

\* lines 122-123, 125-126, 128-129
Pair(f, nn) == <<f, nn \div f>>

InitFactor ==
    /\ pc = "TryPMinus1"
    /\ n \in 2 .. MaxFactorN
    /\ stage = 1
    /\ e = 0 /\ c = 0 /\ bound = 0
    /\ ret = None /\ kd = None
    /\ attempt = 0 /\ rho = RhoFresh(0, 0)
    /\ fac = None /\ cause = "" /\ tried = <<>>

\* lines 120-123: one pass of the loop over the bounds
TryPMinus1 ==
    /\ pc = "TryPMinus1"
    /\ LET f == pollards_p_minus_1(n, PM1Bounds[stage])
       IN /\ tried' = Append(tried, Tried("p-1", PM1Bounds[stage], f))
          /\ IF f # None
             THEN fac' = Pair(f.val, n) /\ pc' = "Success" /\ UNCHANGED stage
             ELSE IF stage < Len(PM1Bounds)
             THEN stage' = stage + 1 /\ UNCHANGED <<pc, fac>>
             ELSE pc' = "TryRho" /\ UNCHANGED <<stage, fac>>
    /\ UNCHANGED <<e, n, c, bound, ret, kd, attempt, rho, cause>>

\* line 124, and lines 69-70 of pollards_rho
TryRho ==
    /\ pc = "TryRho"
    /\ IF n % 2 = 0
       THEN /\ tried' = Append(tried, Tried("rho", RhoAttempts, Some(2)))
            /\ fac' = Pair(2, n)
            /\ pc' = "Success"
            /\ UNCHANGED attempt
       ELSE /\ attempt' = 1
            /\ pc' = "RhoAttempt"
            /\ UNCHANGED <<tried, fac>>
    /\ UNCHANGED <<e, n, c, bound, ret, kd, stage, rho, cause>>

\* lines 74-104 of pollards_rho: one attempt, then lines 125-126
RhoAttempt ==
    /\ pc = "RhoAttempt"
    /\ IF RandRange(n) = {}
       THEN /\ ret' = Fault("ValueError")
            /\ pc' = "done"
            /\ UNCHANGED <<attempt, tried, fac>>
       ELSE \E g \in RhoOutcomeOf[n] :
                  IF RhoAccepts(g, n)
                  THEN /\ tried' = Append(tried, Tried("rho", RhoAttempts, Some(g)))
                       /\ fac' = Pair(g, n)
                       /\ pc' = "Success"
                       /\ UNCHANGED <<attempt, ret>>
                  ELSE IF attempt < RhoAttempts
                  THEN /\ attempt' = attempt + 1
                       /\ UNCHANGED <<pc, tried, fac, ret>>
                  ELSE /\ tried' = Append(tried, Tried("rho", RhoAttempts, None))
                       /\ pc' = "TryFermat"
                       /\ UNCHANGED <<attempt, fac, ret>>
    /\ UNCHANGED <<e, n, c, bound, kd, stage, rho, cause>>

\* lines 127-130
TryFermat ==
    /\ pc = "TryFermat"
    /\ LET f == fermat_factor(n, FermatCap)
       IN /\ tried' = Append(tried, Tried("fermat", FermatCap, f))
          /\ IF f # None
             THEN fac' = Pair(f.val, n) /\ pc' = "Success"
             ELSE pc' = "Exhausted" /\ UNCHANGED fac
    /\ UNCHANGED <<e, n, c, bound, ret, kd, stage, attempt, rho, cause>>

NextFactor ==
    \/ TryPMinus1
    \/ TryRho
    \/ RhoAttempt
    \/ TryFermat

SpecFactor == InitFactor /\ [][NextFactor]_vars

---------------------------------------------------------------------------
(* recover_and_decrypt *)

\* line 146
ReturnNoFactor == None
\* (mutant) a failure value of its own
ReturnNoInverseTagged == [kind |-> "NoInverse"]

\* line 151
ReturnNoInverse == None

Init ==
    /\ pc = "Wiener"
    /\ n \in 1 .. MaxN
    /\ e \in 1 .. MaxE
    /\ c \in 0 .. (n - 1)
    /\ bound = 0
    /\ ret = None /\ kd = None
    /\ stage = 0 /\ attempt = 0 /\ rho = RhoFresh(0, 0)
    /\ fac = None /\ cause = "" /\ tried = <<>>

\* lines 135-142, and the entry of try_factor at line 144
Wiener ==
    /\ pc = "Wiener"
    /\ LET d == wiener_attack(e, n)
       IN IF d # None
          THEN /\ ret' = Bytes(long_to_bytes(pow(c, d.val, n)))
               /\ cause' = "Wiener"
               /\ pc' = "done"
               /\ UNCHANGED stage
          ELSE /\ pc' = "TryPMinus1"
               /\ stage' = 1
               /\ UNCHANGED <<ret, cause>>
    /\ kd' = WienerFound(e, n)
    /\ UNCHANGED <<e, n, c, bound, attempt, rho, fac, tried>>

\* lines 145-146
ReportNoFactor ==
    /\ pc = "Exhausted"
    /\ ret' = ReturnNoFactor
    /\ cause' = "FactorizationFailed"
    /\ pc' = "done"
    /\ UNCHANGED <<e, n, c, bound, kd, stage, attempt, rho, fac, tried>>

\* lines 147-153
DeriveAndDecrypt ==
    /\ pc = "Success"
    /\ LET phi == (fac[1] - 1) * (fac[2] - 1)
           d == invmod(e, phi)
       IN IF d.kind = "fault"
          THEN ret' = d /\ cause' = "fault"
          ELSE IF d = None
          THEN ret' = ReturnNoInverse /\ cause' = "NoInverse"
          ELSE /\ ret' = Bytes(long_to_bytes(pow(c, d.val, n)))
               /\ cause' = "Factored"
    /\ pc' = "done"
    /\ UNCHANGED <<e, n, c, bound, kd, stage, attempt, rho, fac, tried>>

Next ==
    \/ Wiener
    \/ NextFactor
    \/ ReportNoFactor
    \/ DeriveAndDecrypt

Spec == Init /\ [][Next]_vars

---------------------------------------------------------------------------
(* Properties *)

\* the pairs <<P, Q>>, P < Q, of distinct primes with P * Q = nn
SemiprimeSplit(nn) ==
    {<<x, nn \div x>> : x \in {x \in 2 .. isqrt(nn) :
        nn % x = 0 /\ x # nn \div x /\ IsPrime(x) /\ IsPrime(nn \div x)}}

Totient(pq) == (pq[1] - 1) * (pq[2] - 1)

\* the integer a big-endian byte string stands for
RECURSIVE BytesToLong(_)
BytesToLong(s) ==
    IF s = <<>> THEN 0
    ELSE 256 * BytesToLong(SubSeq(s, 1, Len(s) - 1)) + s[Len(s)]

\* C1: for distinct primes P, Q, E coprime to (P-1)(Q-1) and M < N = P*Q,
\* a plaintext returned by recover_and_decrypt(E, N, M^E mod N) has the
\* integer value M.
C1_DecryptsToM ==
    (pc = "done" /\ ret.kind = "bytes") =>
        \A pq \in SemiprimeSplit(n) :
            gcd(e, Totient(pq)) = 1 =>
                \A M \in 0 .. (n - 1) :
                    pow(M, e, n) = c => BytesToLong(ret.val) = M

\* C2: when wiener_attack(E, N) returns d at the convergent (k, d), the
\* totient candidate (E*d - 1)/k is the true totient (P-1)(Q-1), so that
\* E*d = 1 mod (P-1)(Q-1).
C2_TrueTotient ==
    (pc = "done" /\ kd # None) =>
        \A pq \in SemiprimeSplit(n) :
            /\ (e * kd.d - 1) \div kd.k = Totient(pq)
            /\ (e * kd.d) % Totient(pq) = 1

\* 81 * D^4 < nn, that is 9 * D^2 < sqrt(nn)
BelowWienerBound(D, nn) == 9 * D * D <= isqrt(nn - 1)

\* C3 (as stated): for E*D = 1 mod (P-1)(Q-1), wiener_attack(E, N) returns
\* exactly D when 81*D^4 < N and not-found otherwise.
C3_ExactlyBelowBound ==
    pc = "done" =>
        \A pq \in SemiprimeSplit(n) :
            gcd(e, Totient(pq)) = 1 =>
                LET D == LeastInverse(e, Totient(pq))
                IN IF BelowWienerBound(D, n) THEN ret = Some(D) ELSE ret = None

\* the hypotheses of Wiener's theorem: balanced primes, 1 < E < phi
WienerCase(pq) ==
    /\ pq[2] < 2 * pq[1]
    /\ 1 < e /\ e < Totient(pq)
    /\ gcd(e, Totient(pq)) = 1
    /\ BelowWienerBound(LeastInverse(e, Totient(pq)), n)

\* C3 (amended): for primes Q < P < 2Q, 1 < E < (P-1)(Q-1) and the D < phi
\* with E*D = 1 mod (P-1)(Q-1), wiener_attack(E, N) returns exactly D when
\* 81*D^4 < N.
C3_BalancedSmallD ==
    pc = "done" =>
        \A pq \in SemiprimeSplit(n) :
            WienerCase(pq) => ret = Some(LeastInverse(e, Totient(pq)))

\* C3 witness: a balanced key with 1 < E < phi and 81*D^4 < N, D returned
C3_Witness ==
    /\ pc = "done"
    /\ \E pq \in SemiprimeSplit(n) :
          WienerCase(pq) /\ ret = Some(LeastInverse(e, Totient(pq)))

\* C4: a pair (P, Q) returned by try_factor(N), N >= 2, has P*Q = N and
\* 1 < P < N.
C4_PairFactorsN ==
    pc = "Success" => fac[1] * fac[2] = n /\ 1 < fac[1] /\ fac[1] < n

\* C5: recover_and_decrypt(E, N, C), for positive E, N and 0 <= C < N, never
\* ends in an uncaught fault.
C5_NoFault == ret.kind # "fault"

IsSmooth(m, B) == \A p \in 2 .. m : (m % p = 0 /\ IsPrime(p)) => p <= B

\* C7 (as stated): for N = P*Q and B >= 2 with P-1 B-smooth,
\* pollards_p_minus_1(N, B) returns a factor f, 1 < f < N, f | N; it returns
\* not-found only when neither P-1 nor Q-1 is B-smooth.
C7_SmoothFindsFactor ==
    pc = "done" =>
        \A pq \in SemiprimeSplit(n) :
            (IsSmooth(pq[1] - 1, bound) \/ IsSmooth(pq[2] - 1, bound)) =>
                /\ ret # None
                /\ 1 < ret.val /\ ret.val < n /\ n % ret.val = 0

RECURSIVE Factorial(_)
Factorial(b) == IF b <= 1 THEN 1 ELSE b * Factorial(b - 1)

\* the multiplicative order of 2 modulo the odd prime f
RECURSIVE OrderFrom(_, _, _)
OrderFrom(x, k, f) == IF x = 1 THEN k ELSE OrderFrom((2 * x) % f, k + 1, f)

\* 2^(B!) = 1 mod f, for a prime f
TwoPowerIsOne(f, B) == f # 2 /\ Factorial(B) % OrderFrom(2 % f, 1, f) = 0

\* C7 (amended): for N = P*Q and B >= 2, pollards_p_minus_1(N, B) returns a
\* factor exactly when 2^(B!) = 1 modulo exactly one of the two primes, and
\* then returns that prime; it returns not-found when 2^(B!) = 1 modulo
\* both or modulo neither.
C7_OrderDecides ==
    pc = "done" =>
        \A pq \in SemiprimeSplit(n) :
            LET hitP == TwoPowerIsOne(pq[1], bound)
                hitQ == TwoPowerIsOne(pq[2], bound)
            IN ret = IF hitP /\ ~hitQ THEN Some(pq[1])
                     ELSE IF hitQ /\ ~hitP THEN Some(pq[2])
                     ELSE None

\* C7 witness: a prime factor f with f-1 B-smooth is returned
C7_Witness ==
    /\ pc = "done"
    /\ ret # None
    /\ IsSmooth(ret.val - 1, bound)
    /\ \E pq \in SemiprimeSplit(n) : ret.val \in {pq[1], pq[2]}

\* the order of the methods and their budgets
MethodOrder ==
    << <<"p-1", 100000>>, <<"p-1", 300000>>, <<"p-1", 700000>>,
       <<"p-1", 1200000>>, <<"rho", 10>>, <<"fermat", 1000000>> >>

AllNotFound(k) == \A i \in 1 .. k : tried[i].res = None

\* C8: try_factor attempts p-1 with 100000, 300000, 700000, 1200000, then
\* pollards_rho, then fermat_factor with cap 1000000, each only after every
\* earlier one returned not-found; the first success ends the run with
\* (f, N div f); the run ends Exhausted iff all six returned not-found.
C8_FixedOrder ==
    LET k == Len(tried)
    IN /\ k <= Len(MethodOrder)
       /\ \A i \in 1 .. k : <<tried[i].method, tried[i].arg>> = MethodOrder[i]
       /\ AllNotFound(k - 1)
       /\ pc = "TryPMinus1" => k = stage - 1 /\ AllNotFound(k) /\ MethodOrder[stage][1] = "p-1"
       /\ pc \in {"TryRho", "RhoAttempt"} => k = 4 /\ AllNotFound(k)
       /\ pc = "TryFermat" => k = 5 /\ AllNotFound(k)
       /\ pc = "Success" =>
             /\ k >= 1
             /\ tried[k].res # None
             /\ fac = <<tried[k].res.val, n \div tried[k].res.val>>
       /\ pc = "Exhausted" <=> (k = 6 /\ AllNotFound(k))

\* C8 witness: fermat_factor succeeds after the five earlier calls failed
C8_Witness == pc = "Success" /\ Len(tried) = 6

\* pollards_rho has returned a proper divisor of n or not-found
RhoReturned ==
    /\ pc = "done"
    /\ attempt <= RhoAttempts
    /\ \/ ret = None
       \/ ret.kind = "int" /\ 1 < ret.val /\ ret.val < n /\ n % ret.val = 0

\* C9: for every odd N >= 3 and every draw of Y and C, pollards_rho(N)
\* terminates: the Brent loop reaches g != 1, the fallback reaches a gcd > 1,
\* and after at most 10 attempts the call returns a g with 1 < g < N dividing
\* N, or not-found.
C9_RhoTerminates == <>RhoReturned

\* C9 witness: the tenth attempt ends with g = n after the fallback: not-found
C9_Witness == pc = "done" /\ ret = None /\ attempt = RhoAttempts /\ rho.g = n

\* the least r with r*r >= nn
CeilSqrt(nn) == CHOOSE r \in 0 .. nn : r * r >= nn /\ (r = 0 \/ (r - 1) * (r - 1) < nn)

\* increments of A from ceil(sqrt(N)) to (P+Q)/2
FermatNeeds(pq) == (pq[1] + pq[2]) \div 2 - CeilSqrt(pq[1] * pq[2])

\* the odd primes P <= Q with P * Q = nn
OddSplit(nn) ==
    {<<x, nn \div x>> : x \in {x \in 3 .. nn :
        nn % x = 0 /\ x <= nn \div x /\ IsPrime(x) /\ IsPrime(nn \div x)}}

\* C10: for odd primes P <= Q, N = P*Q, fermat_factor(N, max_steps) returns P
\* exactly when max_steps > (P+Q)/2 - ceil(sqrt(N)) and not-found otherwise;
\* a returned p has p * (N div p) = N and 1 < p < N.
C10_FermatCap ==
    pc = "done" =>
        \A pq \in OddSplit(n) :
            /\ ret = IF bound > FermatNeeds(pq) THEN Some(pq[1]) ELSE None
            /\ ret # None =>
                  ret.val * (n \div ret.val) = n /\ 1 < ret.val /\ ret.val < n

\* C10 witness: the cap is one more than the increments needed, P returned
C10_Witness ==
    /\ pc = "done"
    /\ \E pq \in OddSplit(n) :
          /\ FermatNeeds(pq) >= 1
          /\ bound = FermatNeeds(pq) + 1
          /\ ret = Some(pq[1])

=============================================================================
